---- MODULE Spec2Model ----
(***************************************************************************)
(* A model of the BibTeX entry grammar of perscrutar-lib                   *)
(* (src/perscrutar-lib/src/bibtex/parser.rs).                              *)
(*                                                                         *)
(* Text is a sequence of Unicode code points (naturals).  Every parser of  *)
(* parser.rs is an operator from an input to a result record               *)
(*     [k |-> "Ok" | "Error" | "Failure", rest |-> text, val |-> value]    *)
(* which is nom's IResult: Ok((rest, val)), Err(Err::Error(rest, _)) (the  *)
(* recoverable error an enclosing alt may backtrack over) and              *)
(* Err(Err::Failure(rest, _)) (the fatal error that cut produces).  The    *)
(* combinators are the ones of nom 7 (bytes::complete, multi, sequence,    *)
(* combinator), the release whose `escaped` returns when its normal parser *)
(* consumes nothing, as the repository's own test_comment requires.        *)
(***************************************************************************)
EXTENDS Integers, Sequences, FiniteSets, TLC

VARIABLES input, pc, fn, res, exp

vars == <<input, pc, fn, res, exp>>

(***************************************************************************)
(* Characters                                                              *)
(***************************************************************************)

\* The code points the grammar names, as written in parser.rs.
Ch == [ at |-> 64, lbrace |-> 123, rbrace |-> 125, comma |-> 44, eq |-> 61,
        hash |-> 35, nl |-> 10, space |-> 32, tab |-> 9, cr |-> 13,
        quote |-> 34, backslash |-> 92, dash |-> 45, underscore |-> 95,
        dot |-> 46, semicolon |-> 59, colon |-> 58, slash |-> 47,
        caret |-> 94, dollar |-> 36, plus |-> 43, star |-> 42 ]

\* parser.rs:41  let chars = " \t\r\n";
SpChars == {Ch.space, Ch.tab, Ch.cr, Ch.nl}

\* parser.rs:49  let chars = "-_";
LabelChars == {Ch.dash, Ch.underscore}

\* The value punctuation with '#' added to it.
ValueCharsWithHash == {Ch.dash, Ch.underscore, Ch.dot, Ch.comma, Ch.semicolon, Ch.colon,
                       Ch.slash, Ch.space, Ch.caret, Ch.dollar, Ch.plus, Ch.star,
                       Ch.backslash, Ch.nl, Ch.hash}

\* parser.rs:57  let chars = "-_.,;:/ ^$+*\\\n";
ValueChars == {Ch.dash, Ch.underscore, Ch.dot, Ch.comma, Ch.semicolon, Ch.colon,
               Ch.slash, Ch.space, Ch.caret, Ch.dollar, Ch.plus, Ch.star,
               Ch.backslash, Ch.nl}

\* parser.rs:69  one_of("\"n\\")
Escapable == {Ch.quote, 110, Ch.backslash}

\* `c as u8` (parser.rs:52): a char is cast to a byte by truncation.
AsU8(c) == c % 256

\* nom::character::is_alphabetic(u8): the ASCII letters A-Z and a-z.
is_alphabetic(b) == (b >= 65 /\ b <= 90) \/ (b >= 97 /\ b <= 122)

\* Unicode code points beyond ASCII that are letters (char::is_alphabetic), as
\* far as the texts of this model use them: A-grave, e-acute, o-diaeresis, u-diaeresis, l-stroke.
UnicodeLetters == {192, 233, 246, 252, 322}

\* char::is_alphabetic on a full code point: what "a letter" means.
IsLetter(c) == (c >= 65 /\ c <= 90) \/ (c >= 97 /\ c <= 122) \/ c \in UnicodeLetters

\* nom_unicode::is_alphanumeric(char) = char::is_alphanumeric.
is_alphanumeric_unicode(c) == IsLetter(c) \/ (c >= 48 /\ c <= 57)

(***************************************************************************)
(* Results and nom's combinators                                           *)
(***************************************************************************)

Ok(rest, val) == [k |-> "Ok", rest |-> rest, val |-> val]
Error(rest) == [k |-> "Error", rest |-> rest, val |-> <<>>]
Failure(rest) == [k |-> "Failure", rest |-> rest, val |-> <<>>]

Drop(i, n) == SubSeq(i, n + 1, Len(i))
Take(i, n) == SubSeq(i, 1, n)

\* bytes::complete::take_while: the maximal prefix whose characters satisfy
\* the predicate; never fails.  hit[j] tells whether i[j] satisfies it.
take_while(hit, i) ==
  LET n == CHOOSE m \in 0..Len(i) :
             /\ \A j \in 1..m : hit[j]
             /\ (m = Len(i) \/ ~hit[m + 1])
  IN Ok(Drop(i, n), Take(i, n))

\* character::complete::char and bytes::complete::tag of one character.
char(c, i) == IF Len(i) > 0 /\ i[1] = c THEN Ok(Tail(i), <<c>>) ELSE Error(i)

\* character::complete::one_of.
one_of(S, i) == IF Len(i) > 0 /\ i[1] \in S THEN Ok(Tail(i), <<i[1]>>) ELSE Error(i)

\* bytes::complete::take_until("\n"): up to, not including, the first newline;
\* an error when the input holds none.
take_until_nl(i) ==
  IF \E j \in 1..Len(i) : i[j] = Ch.nl
  THEN LET n == CHOOSE j \in 1..Len(i) : i[j] = Ch.nl /\ \A h \in 1..(j - 1) : i[h] # Ch.nl
       IN Ok(Drop(i, n - 1), Take(i, n - 1))
  ELSE Error(i)

\* cut left out: the error stays recoverable.
cut_noop(r) == r

\* combinator::cut: a recoverable error becomes a failure.
cut(r) == IF r.k = "Error" THEN Failure(r.rest) ELSE r

\* The control flow every nom combinator is built from: on Ok the parser goes
\* on with the result, on a recoverable error it may take another way, and a
\* failure is returned as it is.
match(r, OnOk(_), OnError(_)) ==
  CASE r.k = "Ok" -> OnOk(r)
    [] r.k = "Error" -> OnError(r)
    [] OTHER -> r

\* Sequencing (tuple, preceded, terminated, separated_pair): the `?` of nom's
\* sequence parsers; any error ends the sequence.
then(r, OnOk(_)) == IF r.k = "Ok" THEN OnOk(r) ELSE r

(***************************************************************************)
(* Scanner primitives                                                      *)
(***************************************************************************)

sp(i) == take_while([j \in 1..Len(i) |-> i[j] \in SpChars], i)

alphabeticlabel(i) ==
  take_while([j \in 1..Len(i) |-> is_alphabetic(AsU8(i[j])) \/ i[j] \in LabelChars], i)

alphanumericplus(i) ==
  take_while([j \in 1..Len(i) |-> is_alphanumeric_unicode(i[j]) \/ i[j] \in ValueChars], i)

\* bytes::complete::escaped(alphanumericplus, '\\', one_of("\"n\\")), nom 7:
\* the loop over the remaining text i of the whole text `whole`.
RECURSIVE escaped(_, _)
escaped(whole, i) ==
  IF Len(i) = 0 THEN Ok(<<>>, whole)
  ELSE match(alphanumericplus(i),
         LAMBDA r :
           IF Len(r.rest) = 0 THEN Ok(<<>>, whole)
           ELSE IF Len(r.rest) = Len(i)
                THEN Ok(r.rest, Take(whole, Len(whole) - Len(r.rest)))
                ELSE escaped(whole, r.rest),
         LAMBDA r :
           IF i[1] = Ch.backslash
           THEN IF 1 >= Len(i) THEN Error(whole)
                ELSE then(one_of(Escapable, Tail(i)),
                       LAMBDA e : IF Len(e.rest) = 0 THEN Ok(<<>>, whole)
                                  ELSE escaped(whole, e.rest))
           ELSE IF Len(whole) - Len(i) = 0 THEN Error(whole)
                ELSE Ok(i, Take(whole, Len(whole) - Len(i))))

parse_str(i) == escaped(i, i)

\* eolcomment without its last tag: the newline is left in the input.
eolcomment_keep_nl(i) ==
  then(char(Ch.hash, i), LAMBDA h :
  then(take_until_nl(h.rest), LAMBDA u :
  Ok(u.rest, <<>>)))

\* value((), tuple((tag("#"), take_until("\n"), tag("\n"))))
eolcomment(i) ==
  then(char(Ch.hash, i), LAMBDA h :
  then(take_until_nl(h.rest), LAMBDA u :
  then(char(Ch.nl, u.rest), LAMBDA n :
  Ok(n.rest, <<>>))))

\* The closure of parse_str_with_comments: push_str of every run, in order.
RECURSIVE concat(_)
concat(runs) == IF runs = <<>> THEN <<>> ELSE Head(runs) \o concat(Tail(runs))

\* multi::separated_list0(eolcomment, parse_str), after its first element:
\* i is the text left, acc the runs pushed so far.
RECURSIVE str_list_loop(_, _)
str_list_loop(i, acc) ==
  match(eolcomment(i),
    LAMBDA s :
      IF Len(s.rest) = Len(i) THEN Error(s.rest)
      ELSE match(parse_str(s.rest),
             LAMBDA f : str_list_loop(f.rest, Append(acc, f.val)),
             LAMBDA f : Ok(i, acc)),
    LAMBDA s : Ok(i, acc))

\* map(separated_list0(eolcomment, parse_str), |result| ...)
parse_str_with_comments(i) ==
  then(match(parse_str(i),
         LAMBDA f : str_list_loop(f.rest, <<f.val>>),
         LAMBDA f : Ok(i, <<>>)),
       LAMBDA l : Ok(l.rest, concat(l.val)))

\* alt((terminated(alphabeticlabel, eolcomment), alphabeticlabel))
alphabeticlabel_comment(i) ==
  match(then(alphabeticlabel(i), LAMBDA a :
        then(eolcomment(a.rest), LAMBDA c : Ok(c.rest, a.val))),
    LAMBDA r : r,
    LAMBDA r : alphabeticlabel(i))

(***************************************************************************)
(* Delimited strings, key-value pairs, field lists, entries                *)
(***************************************************************************)

\* terminated(parse_str_with_comments, char(close))
body_then(close, i) ==
  then(parse_str_with_comments(i), LAMBDA b :
  then(char(close, b.rest), LAMBDA c : Ok(c.rest, b.val)))

\* preceded(char('\"'), cut(terminated(parse_str_with_comments, char('\"'))))
string_spm(i) ==
  then(char(Ch.quote, i), LAMBDA o : cut(body_then(Ch.quote, o.rest)))

\* preceded(char('{'), cut(terminated(parse_str_with_comments, char('}'))))
string_brc(i) ==
  then(char(Ch.lbrace, i), LAMBDA o : cut(body_then(Ch.rbrace, o.rest)))

\* alt((string_spm, string_brc)): the second is tried on a recoverable error only.
string_value(i) ==
  match(string_spm(i), LAMBDA q : q, LAMBDA q : string_brc(i))

\* separated_pair(preceded(sp, alphabeticlabel_comment),
\*                cut(preceded(sp, char('='))),
\*                preceded(sp, alt((string_spm, string_brc))))
key_value(i) ==
  then(alphabeticlabel_comment(sp(i).rest), LAMBDA l :
  then(cut(char(Ch.eq, sp(l.rest).rest)), LAMBDA e :
  then(string_value(sp(e.rest).rest), LAMBDA v :
  Ok(v.rest, <<l.val, v.val>>))))

\* preceded(sp, tag(","))
sep_sp_comma(i) == char(Ch.comma, sp(i).rest)

\* terminated(c, preceded(sp, eolcomment)) when skip, terminated(c, eolcomment)
\* otherwise, on the result c of the comma part.
sep_then_comment(c, skip) ==
  then(c, LAMBDA r :
  then(eolcomment(IF skip THEN sp(r.rest).rest ELSE r.rest), LAMBDA e :
  Ok(e.rest, r.val)))

\* let sep = alt(( ... )) of kvlist, its five alternatives in order.
sep(i) ==
  match(sep_then_comment(sep_sp_comma(i), TRUE), LAMBDA r : r, LAMBDA a :
  match(sep_then_comment(char(Ch.comma, i), TRUE), LAMBDA r : r, LAMBDA b :
  match(sep_then_comment(sep_sp_comma(i), FALSE), LAMBDA r : r, LAMBDA c :
  match(sep_sp_comma(i), LAMBDA r : r, LAMBDA d :
  char(Ch.comma, i)))))

\* multi::separated_list0(sep, key_value), after its first element.
RECURSIVE kv_list_loop(_, _)
kv_list_loop(i, acc) ==
  match(sep(i),
    LAMBDA s :
      IF Len(s.rest) = Len(i) THEN Error(s.rest)
      ELSE match(key_value(s.rest),
             LAMBDA f : kv_list_loop(f.rest, Append(acc, f.val)),
             LAMBDA f : Ok(i, acc)),
    LAMBDA s : Ok(i, acc))

\* multi::separated_list0(sep, key_value)
kv_separated_list0(i) ==
  match(key_value(i),
    LAMBDA f : kv_list_loop(f.rest, <<f.val>>),
    LAMBDA f : Ok(i, <<>>))

\* An insert that keeps the value a key already has.
insert_keep_first(m, kv) ==
  [x \in DOMAIN m \cup {kv[1]} |-> IF x \in DOMAIN m THEN m[x] ELSE kv[2]]

\* HashMap::insert: a later pair with the same key replaces the earlier one.
insert(m, kv) ==
  [x \in DOMAIN m \cup {kv[1]} |-> IF x = kv[1] THEN kv[2] ELSE m[x]]

\* The empty HashMap.
EmptyMap == [x \in {} |-> <<>>]

\* tuple_vec.into_iter().map(...).collect() into a HashMap.
RECURSIVE collect(_, _)
collect(m, pairs) ==
  IF pairs = <<>> THEN m ELSE collect(insert(m, Head(pairs)), Tail(pairs))

\* context("map", cut(terminated(map(separated_list0(sep, key_value), collect), sp)))
kvlist(i) ==
  cut(then(kv_separated_list0(i), LAMBDA l :
           Ok(sp(l.rest).rest, collect(EmptyMap, l.val))))

\* cut(terminated(terminated(alphabeticlabel_comment, sp), char('{')))
entry_type(i) ==
  cut(then(alphabeticlabel_comment(i), LAMBDA t :
      then(char(Ch.lbrace, sp(t.rest).rest), LAMBDA b : Ok(b.rest, t.val))))

\* cut(terminated(preceded(sp, terminated(alphabeticlabel_comment, sp)), char(',')))
entry_key(i) ==
  cut(then(alphabeticlabel_comment(sp(i).rest), LAMBDA t :
      then(char(Ch.comma, sp(t.rest).rest), LAMBDA b : Ok(b.rest, t.val))))

\* terminated(kvlist, char('}')) with the cut left out.
entry_fields_nocut(i) ==
  then(kvlist(i), LAMBDA l :
  then(char(Ch.rbrace, l.rest), LAMBDA b : Ok(b.rest, l.val)))

\* cut(terminated(kvlist, char('}')))
entry_fields(i) ==
  cut(then(kvlist(i), LAMBDA l :
      then(char(Ch.rbrace, l.rest), LAMBDA b : Ok(b.rest, l.val))))

\* context("bibitem", preceded(sp, preceded(char('@'), tuple((..., ..., ...)))))
bibentry(i) ==
  then(char(Ch.at, sp(i).rest), LAMBDA a :
  then(entry_type(a.rest), LAMBDA t :
  then(entry_key(t.rest), LAMBDA c :
  then(entry_fields(c.rest), LAMBDA f :
  Ok(f.rest, [type |-> t.val, key |-> c.val, fields |-> f.val])))))

(***************************************************************************)
(* Bounds                                                                  *)
(***************************************************************************)

\* The most key-value pairs a written entry or field list holds.
MaxPairs == 2

\* The most segments (runs and comments) a written value body holds.
MaxSegs == 4

\* The longest text of the exhaustive scans.
MaxScanLen == 4

\* The most single-character edits applied to a well-formed entry.
MaxEdits == 1

(***************************************************************************)
(* Writing texts: the inverse of the grammar, used to draw inputs          *)
(***************************************************************************)

Open(d) == IF d = "brace" THEN <<Ch.lbrace>> ELSE <<Ch.quote>>
Close(d) == IF d = "brace" THEN <<Ch.rbrace>> ELSE <<Ch.quote>>

\* ws label ws '=' ws value ws
RenderPair(p) ==
  p.pre \o p.label \o p.gap \o <<Ch.eq>> \o p.gap \o Open(p.delim) \o p.body
        \o Close(p.delim) \o p.post

\* pairs joined by the separator text s
RECURSIVE RenderPairs(_, _)
RenderPairs(ps, s) ==
  IF Len(ps) = 0 THEN <<>>
  ELSE IF Len(ps) = 1 THEN RenderPair(ps[1])
  ELSE RenderPair(ps[1]) \o s \o RenderPairs(Tail(ps), s)

\* ws '@' T ws '{' ws K ws ',' P1 ',' ... ',' Pn '}' R
RenderEntry(e) ==
  e.ws \o <<Ch.at>> \o e.type \o e.ws \o <<Ch.lbrace>> \o e.ws \o e.key \o e.ws
       \o <<Ch.comma>> \o RenderPairs(e.pairs, <<Ch.comma>>) \o <<Ch.rbrace>> \o e.tail

\* Whitespace around the parts of a pair: none, or mixed space, tab, CR, newline.
PairWs == { [pre |-> <<>>, gap |-> <<>>, post |-> <<>>],
            [pre |-> <<10, 9>>, gap |-> <<32>>, post |-> <<>>],
            [pre |-> <<32>>, gap |-> <<>>, post |-> <<32, 13, 10>>] }

\* Field names: "a" and "b_c".
PairLabels == { <<97>>, <<98, 95, 99>> }

\* Values: {1}, "2", {x, \n} and "".
PairValues == { [delim |-> "brace", body |-> <<49>>],
                [delim |-> "quote", body |-> <<50>>],
                [delim |-> "brace", body |-> <<120, 44, 32, 92, 110>>],
                [delim |-> "quote", body |-> <<>>] }

Pairs == { [pre |-> w.pre, gap |-> w.gap, post |-> w.post, label |-> l,
            delim |-> v.delim, body |-> v.body] :
           w \in PairWs, l \in PairLabels, v \in PairValues }

PairSeqs(S) == UNION { [1..n -> S] : n \in 1..MaxPairs }

\* Type and key: @bk{C-x and @a_b{k; whitespace between the parts: none or " \n";
\* what follows the entry: nothing or "\n}".
Entries == { [ws |-> w, type |-> h[1], key |-> h[2], pairs |-> ps, tail |-> r] :
             w \in { <<>>, <<32, 10>> },
             h \in { << <<98, 107>>, <<67, 45, 120>> >>, << <<97, 95, 98>>, <<107>> >> },
             ps \in PairSeqs(Pairs),
             r \in { <<>>, <<10, 125>> } }

\* The mapping a field list denotes: each label to the body of its last pair.
LastIndex(ps, l) == CHOOSE j \in 1..Len(ps) :
                      ps[j].label = l /\ \A h \in (j + 1)..Len(ps) : ps[h].label # l

LastMap(ps) == [l \in { ps[j].label : j \in 1..Len(ps) } |-> ps[LastIndex(ps, l)].body]

(***************************************************************************)
(* Spec: bibentry on well-formed entries                                   *)
(***************************************************************************)

Init ==
  /\ exp \in Entries
  /\ input = RenderEntry(exp)
  /\ pc = "ready"
  /\ fn = "none"
  /\ res = Ok(<<>>, <<>>)

CallBibentry ==
  /\ pc \in {"ready", "edited"}
  /\ res' = bibentry(input)
  /\ fn' = "bibentry"
  /\ pc' = "done"
  /\ UNCHANGED <<input, exp>>

Next == CallBibentry

Spec == Init /\ [][Next]_vars

\* C1: bibentry on a well-formed entry succeeds and returns the type label, the
\* citation key, the mapping of every field label to the body of its last
\* occurrence, and as remainder exactly the text after the closing brace.
C1_WellFormedEntry ==
  pc = "done" =>
    res = Ok(exp.tail, [type |-> exp.type, key |-> exp.key, fields |-> LastMap(exp.pairs)])

\* C1 witness: an entry with a duplicated label and different bodies, followed by
\* more text, has been parsed.
C1_Witness ==
  /\ pc = "done"
  /\ res.k = "Ok"
  /\ Len(exp.pairs) = 2
  /\ exp.pairs[1].label = exp.pairs[2].label
  /\ exp.pairs[1].body # exp.pairs[2].body
  /\ exp.tail # <<>>

(***************************************************************************)
(* SpecBody: value bodies made of runs and full-line comments              *)
(***************************************************************************)

\* Runs of value characters: "a", "b " and e-acute, and "x\"; comments: "#\n",
\* "#c d\n" and a comment holding delimiters and a second '#'.
Segments == { [kind |-> "run", text |-> <<97>>],
              [kind |-> "run", text |-> <<98, 32, 233>>],
              [kind |-> "run", text |-> <<120, 92>>],
              [kind |-> "comment", text |-> <<35, 10>>],
              [kind |-> "comment", text |-> <<35, 99, 32, 100, 10>>],
              [kind |-> "comment", text |-> <<35, 123, 34, 125, 35, 10>>] }

SegSeqs == UNION { [1..n -> Segments] : n \in 0..MaxSegs }

\* The body as written: every segment in order.
RECURSIVE BodyText(_)
BodyText(segs) ==
  IF segs = <<>> THEN <<>> ELSE Head(segs).text \o BodyText(Tail(segs))

\* The body with every comment span deleted: the runs alone, joined directly.
RECURSIVE RunsOnly(_)
RunsOnly(segs) ==
  IF segs = <<>> THEN <<>>
  ELSE (IF Head(segs).kind = "run" THEN Head(segs).text ELSE <<>>) \o RunsOnly(Tail(segs))

\* The text handed to the parser: the bare body, or the body between quotes
\* or braces, then the text that follows it.
Wrapped(e) ==
  CASE e.wrap = "none" -> BodyText(e.segs) \o e.tail
    [] e.wrap = "quote" -> <<Ch.quote>> \o BodyText(e.segs) \o <<Ch.quote>> \o e.tail
    [] e.wrap = "brace" -> <<Ch.lbrace>> \o BodyText(e.segs) \o <<Ch.rbrace>> \o e.tail

InitBody ==
  /\ exp \in { [segs |-> s, wrap |-> w, tail |-> r] :
               s \in SegSeqs, w \in {"none", "quote", "brace"},
               r \in { <<>>, <<Ch.rbrace, Ch.comma>> } }
  /\ input = Wrapped(exp)
  /\ pc = "ready"
  /\ fn = "none"
  /\ res = Ok(<<>>, <<>>)

CallParseStrWithComments ==
  /\ pc = "ready" /\ exp.wrap = "none"
  /\ res' = parse_str_with_comments(input)
  /\ fn' = "parse_str_with_comments"
  /\ pc' = "done"
  /\ UNCHANGED <<input, exp>>

CallStringSpm ==
  /\ pc = "ready" /\ exp.wrap = "quote"
  /\ res' = string_spm(input)
  /\ fn' = "string_spm"
  /\ pc' = "done"
  /\ UNCHANGED <<input, exp>>

CallStringBrc ==
  /\ pc = "ready" /\ exp.wrap = "brace"
  /\ res' = string_brc(input)
  /\ fn' = "string_brc"
  /\ pc' = "done"
  /\ UNCHANGED <<input, exp>>

NextBody == CallParseStrWithComments \/ CallStringSpm \/ CallStringBrc

SpecBody == InitBody /\ [][NextBody]_vars

\* C3: a body of runs interleaved with any number of full-line comments is
\* assembled to the body with every comment span, '#' through newline, deleted:
\* the runs joined directly, nothing inserted and nothing dropped; the text
\* after the body (after the closing delimiter) is the remainder.
C3_CommentsRemoved ==
  pc = "done" => res = Ok(exp.tail, RunsOnly(exp.segs))

\* C3 witness: a body that starts with a comment, holds two comments in a row
\* and ends with a comment has been assembled inside braces.
C3_Witness ==
  /\ pc = "done" /\ fn = "string_brc" /\ res.k = "Ok"
  /\ Len(exp.segs) = 4
  /\ exp.segs[1].kind = "comment"
  /\ exp.segs[2].kind = "run"
  /\ exp.segs[3].kind = "comment"
  /\ exp.segs[4].kind = "comment"

(***************************************************************************)
(* SpecScan: the scanners and string parsers on every short text           *)
(***************************************************************************)

\* 'a', '=', '{', '}', '"', '#', newline, backslash, and U+2041 CARET INSERTION
\* POINT, a punctuation mark whose low byte is 0x41, the code of 'A'.
ScanChars == {97, Ch.eq, Ch.lbrace, Ch.rbrace, Ch.quote, Ch.hash, Ch.nl, Ch.backslash, 8257}

ScanTexts == UNION { [1..n -> ScanChars] : n \in 0..MaxScanLen }

\* What precedes the scanned text: nothing, or a label and '=' ("a=", " a = ").
ScanPrefixes == { <<>>, <<97, 61>>, <<32, 97, 32, 61, 32>> }

InitScan ==
  /\ exp \in { [prefix |-> q, text |-> s] : q \in ScanPrefixes, s \in ScanTexts }
  /\ input = exp.prefix \o exp.text
  /\ pc = "ready"
  /\ fn = "none"
  /\ res = Ok(<<>>, <<>>)

ScanAlphabeticlabel ==
  /\ pc = "ready" /\ exp.prefix = <<>>
  /\ res' = alphabeticlabel(input)
  /\ fn' = "alphabeticlabel"
  /\ pc' = "done"
  /\ UNCHANGED <<input, exp>>

ScanParseStr ==
  /\ pc = "ready" /\ exp.prefix = <<>>
  /\ res' = parse_str(input)
  /\ fn' = "parse_str"
  /\ pc' = "done"
  /\ UNCHANGED <<input, exp>>

ScanStringSpm ==
  /\ pc = "ready" /\ exp.prefix = <<>>
  /\ res' = string_spm(input)
  /\ fn' = "string_spm"
  /\ pc' = "done"
  /\ UNCHANGED <<input, exp>>

ScanStringBrc ==
  /\ pc = "ready" /\ exp.prefix = <<>>
  /\ res' = string_brc(input)
  /\ fn' = "string_brc"
  /\ pc' = "done"
  /\ UNCHANGED <<input, exp>>

ScanKeyValue ==
  /\ pc = "ready" /\ exp.prefix # <<>>
  /\ res' = key_value(input)
  /\ fn' = "key_value"
  /\ pc' = "done"
  /\ UNCHANGED <<input, exp>>

NextScan ==
  \/ ScanAlphabeticlabel
  \/ ScanParseStr
  \/ ScanStringSpm
  \/ ScanStringBrc
  \/ ScanKeyValue

SpecScan == InitScan /\ [][NextScan]_vars

\* The value characters of the specification: Unicode letters and digits and
\* the punctuation - _ . , ; : / space ^ $ + * \ newline.
IsValueChar(c) ==
  \/ IsLetter(c) \/ (c >= 48 /\ c <= 57)
  \/ c \in {45, 95, 46, 44, 59, 58, 47, 32, 94, 36, 43, 42, 92, 10}

HasNewline(i) == \E j \in 1..Len(i) : i[j] = Ch.nl

\* The length of the value body at the front of i, read off the text: value
\* characters and whole '#'...newline comments, up to the first character that
\* is neither.
RECURSIVE BodyLen(_)
BodyLen(i) ==
  IF i = <<>> THEN 0
  ELSE IF IsValueChar(i[1]) THEN 1 + BodyLen(Tail(i))
  ELSE IF i[1] = Ch.hash /\ HasNewline(i)
       THEN LET n == CHOOSE j \in 1..Len(i) :
                       i[j] = Ch.nl /\ \A h \in 1..(j - 1) : i[h] # Ch.nl
            IN n + BodyLen(Drop(i, n))
  ELSE 0

\* The text with every '#'...newline span deleted.
RECURSIVE StripComments(_)
StripComments(i) ==
  IF i = <<>> THEN <<>>
  ELSE IF i[1] = Ch.hash /\ HasNewline(i)
       THEN LET n == CHOOSE j \in 1..Len(i) :
                       i[j] = Ch.nl /\ \A h \in 1..(j - 1) : i[h] # Ch.nl
            IN StripComments(Drop(i, n))
  ELSE <<i[1]>> \o StripComments(Tail(i))

\* What a delimited string starting at the opening delimiter of v must give:
\* the assembled body and the text after the closing delimiter when the body
\* is immediately followed by that delimiter, and otherwise a fatal error.
IsClosed(v, close) ==
  LET n == BodyLen(Tail(v)) IN Len(v) >= n + 2 /\ v[n + 2] = close

CommittedOutcome(r, v, close, labelled) ==
  LET n == BodyLen(Tail(v)) IN
  IF IsClosed(v, close)
  THEN /\ r.k = "Ok"
       /\ r.rest = Drop(v, n + 2)
       /\ (IF labelled THEN r.val[2] ELSE r.val) = StripComments(SubSeq(v, 2, n + 1))
  ELSE r.k = "Failure"

\* C4: once the opening '"' or '{' has been matched, by string_spm, by
\* string_brc or by key_value after `label =`, a body that is not immediately
\* followed by the matching closing delimiter gives a fatal error: never a
\* success with a partial value, never a recoverable error, and never a
\* second try with the other delimiter form.
C4_CommitAfterOpen ==
  (pc = "done" /\ exp.text # <<>>) =>
    /\ (fn = "string_spm" /\ exp.text[1] = Ch.quote)
         => CommittedOutcome(res, exp.text, Ch.quote, FALSE)
    /\ (fn = "string_brc" /\ exp.text[1] = Ch.lbrace)
         => CommittedOutcome(res, exp.text, Ch.rbrace, FALSE)
    /\ (fn = "key_value" /\ exp.text[1] = Ch.quote)
         => CommittedOutcome(res, exp.text, Ch.quote, TRUE)
    /\ (fn = "key_value" /\ exp.text[1] = Ch.lbrace)
         => CommittedOutcome(res, exp.text, Ch.rbrace, TRUE)

\* C4 witness: key_value has read `label = {`, a body and then a '"' where the
\* '}' belongs, and has failed fatally.
C4_Witness ==
  /\ pc = "done" /\ fn = "key_value" /\ res.k = "Failure"
  /\ Len(exp.text) >= 3
  /\ exp.text[1] = Ch.lbrace
  /\ exp.text[2] = 97
  /\ exp.text[3] = Ch.quote

\* The index of the first backslash of i that is not the start of an escape
\* (not followed by '"', 'n' or '\'), scanning left to right and skipping the
\* escaped character of every escape; Len(i) + 1 when there is none.
RECURSIVE FirstBareBackslash(_, _)
FirstBareBackslash(i, j) ==
  IF j > Len(i) THEN Len(i) + 1
  ELSE IF i[j] # Ch.backslash THEN FirstBareBackslash(i, j + 1)
  ELSE IF j < Len(i) /\ i[j + 1] \in {Ch.quote, 110, Ch.backslash}
       THEN FirstBareBackslash(i, j + 2)
  ELSE j

\* C7: in a value-body scan a backslash is consumed only as part of an escape:
\* the scanned run ends before a backslash that is followed by a character
\* other than '"', 'n', '\' or by the end of the input.
C7_BackslashOnlyAsEscape ==
  (pc = "done" /\ fn = "parse_str" /\ res.k = "Ok") =>
    Len(res.val) < FirstBareBackslash(input, 1)

\* C10: every character of a label that alphabeticlabel returns is a letter,
\* '-' or '_', whatever its code point.
C10_LabelCharsAreLetters ==
  (pc = "done" /\ fn = "alphabeticlabel" /\ res.k = "Ok") =>
    \A j \in 1..Len(res.val) : IsLetter(res.val[j]) \/ res.val[j] \in {45, 95}

(***************************************************************************)
(* SpecList: kvlist on field lists                                         *)
(***************************************************************************)

\* The pairs of a written list: a={1}, a="2", b_c={x, \n}, with and without
\* whitespace around '='; whitespace around the pair belongs to the separator.
ListPairs == { [pre |-> <<>>, gap |-> g, post |-> <<>>, label |-> v[1],
                delim |-> v[2], body |-> v[3]] :
               g \in { <<>>, <<32>> },
               v \in { << <<97>>, "brace", <<49>> >>,
                       << <<97>>, "quote", <<50>> >>,
                       << <<98, 95, 99>>, "brace", <<120, 44, 32, 92, 110>> >> } }

\* Separators (whitespace | comment)* ',' (whitespace | comment)*:
\*   ","   " , "   ",#c\n"   " ,\n #c\n "   ",#c\n#c\n"   "#c\n,"   " #c\n , "
Separators == { <<44>>,
                <<32, 44, 32>>,
                <<44, 35, 99, 10>>,
                <<32, 44, 10, 32, 35, 99, 10, 32>>,
                <<44, 35, 99, 10, 35, 99, 10>>,
                <<35, 99, 10, 44>>,
                <<32, 35, 99, 10, 32, 44, 32>> }

\* What follows the last pair: nothing; a trailing comma, itself followed by
\* whitespace and comments; or a comma and a pair that does not parse
\* ("b=x", " b = x", "b", "b={1").
Endings == { [kind |-> "none", text |-> <<>>],
             [kind |-> "trailing", text |-> <<44>>],
             [kind |-> "trailing", text |-> <<44, 32, 10>>],
             [kind |-> "trailing", text |-> <<44, 35, 99, 10>>],
             [kind |-> "trailing", text |-> <<32, 44, 10, 35, 99, 10, 32>>],
             [kind |-> "badpair", text |-> <<44, 98, 61, 120>>],
             [kind |-> "badpair", text |-> <<44, 32, 98, 32, 61, 32, 120>>],
             [kind |-> "badpair", text |-> <<44, 98>>],
             [kind |-> "badpair", text |-> <<44, 98, 61, 123, 49>>] }

\* P1 sep P2 sep ... Pn, the ending, then the closing brace of the entry or
\* the end of the input.
RenderList(e) == RenderPairs(e.pairs, e.sep) \o e.ending.text \o e.term

InitList ==
  /\ exp \in { [pairs |-> ps, sep |-> s, ending |-> x, term |-> r] :
               ps \in PairSeqs(ListPairs), s \in Separators, x \in Endings,
               r \in { <<>>, <<Ch.rbrace>> } }
  /\ input = RenderList(exp)
  /\ pc = "ready"
  /\ fn = "none"
  /\ res = Ok(<<>>, <<>>)

CallKvlist ==
  /\ pc = "ready"
  /\ res' = kvlist(input)
  /\ fn' = "kvlist"
  /\ pc' = "done"
  /\ UNCHANGED <<input, exp>>

NextList == CallKvlist

SpecList == InitList /\ [][NextList]_vars

\* C2: a field list followed by a trailing comma (and then whitespace and
\* comments, then '}' or the end of the input) parses to the same mapping as
\* the list without it: the mapping of its pairs.
C2_TrailingCommaAccepted ==
  (pc = "done" /\ exp.ending.kind = "trailing" /\ exp.sep = <<44>>) =>
    (res.k = "Ok" /\ res.val = LastMap(exp.pairs))

\* C6: two consecutive pairs are both parsed whenever the separator between
\* them is (whitespace | comment)* ',' (whitespace | comment)*.
C6_SeparatorsAccepted ==
  (pc = "done" /\ exp.ending.kind = "none") =>
    (res.k = "Ok" /\ res.val = LastMap(exp.pairs) /\ res.rest = exp.term)

\* C9: when a separator ',' has been matched and the pair after it fails to
\* parse, kvlist gives a fatal error; it never succeeds with the earlier pairs
\* and leaves the matched ',' in the remainder.
C9_NoBacktrackPastComma ==
  (pc = "done" /\ exp.ending.kind = "badpair" /\ exp.sep = <<44>>) =>
    res.k = "Failure"

(***************************************************************************)
(* SpecFault: bibentry on entries damaged by single-character edits        *)
(***************************************************************************)

\* Two well-formed entries:
\*   @b{k,a={1},b="2"}
\*   " @b {k ,\n a = {1} ,#c\n b = \"2\" }x"
BaseEntries ==
  { <<64, 98, 123, 107, 44, 97, 61, 123, 49, 125, 44, 98, 61, 34, 50, 34, 125>>,
    <<32, 64, 98, 32, 123, 107, 32, 44, 10, 32, 97, 32, 61, 32, 123, 49, 125, 32,
      44, 35, 99, 10, 32, 98, 32, 61, 32, 34, 50, 34, 32, 125, 120>> }

\* The characters an edit writes: # newline @ { } , = " space x
FaultChars == {35, 10, 64, 123, 125, 44, 61, 34, 32, 120}

InitFault ==
  /\ input \in BaseEntries
  /\ exp = [edits |-> 0]
  /\ pc = "ready"
  /\ fn = "none"
  /\ res = Ok(<<>>, <<>>)

\* The input ends early.
Truncate ==
  /\ pc \in {"ready", "edited"} /\ exp.edits < MaxEdits
  /\ \E n \in 0..(Len(input) - 1) : input' = Take(input, n)
  /\ exp' = [edits |-> exp.edits + 1]
  /\ pc' = "edited"
  /\ UNCHANGED <<fn, res>>

\* One character is replaced by another.
Replace ==
  /\ pc \in {"ready", "edited"} /\ exp.edits < MaxEdits
  /\ \E n \in 1..Len(input), c \in FaultChars :
       /\ input[n] # c
       /\ input' = [input EXCEPT ![n] = c]
  /\ exp' = [edits |-> exp.edits + 1]
  /\ pc' = "edited"
  /\ UNCHANGED <<fn, res>>

\* One character is inserted.
Insert ==
  /\ pc \in {"ready", "edited"} /\ exp.edits < MaxEdits
  /\ \E n \in 0..Len(input), c \in FaultChars :
       input' = Take(input, n) \o <<c>> \o Drop(input, n)
  /\ exp' = [edits |-> exp.edits + 1]
  /\ pc' = "edited"
  /\ UNCHANGED <<fn, res>>

NextFault == Truncate \/ Replace \/ Insert \/ CallBibentry

SpecFault == InitFault /\ [][NextFault]_vars

\* After leading whitespace the next character of i is '@'.
StartsWithAt(i) ==
  \E j \in 1..Len(i) :
    i[j] = Ch.at /\ \A h \in 1..(j - 1) : i[h] \in {32, 9, 13, 10}

\* C5: bibentry returns a recoverable error only when, after leading
\* whitespace, the next character is not '@' or the input is exhausted; once
\* '@' has been consumed the result is a success or a fatal error.
C5_CommitAfterAt ==
  (pc = "done" /\ fn = "bibentry") => (res.k = "Error" <=> ~StartsWithAt(input))

\* C5 witness: an entry that starts with '@' has failed fatally at the end of
\* the input, and so in its field list or at its closing brace.
C5_Witness ==
  /\ pc = "done" /\ fn = "bibentry" /\ res.k = "Failure"
  /\ StartsWithAt(input)
  /\ res.rest = <<>>
  /\ \E j \in 1..Len(input) : input[j] = Ch.eq

\* C8: bibentry never succeeds over an unterminated comment: every '#' of the
\* text a successful parse consumed is followed by a newline inside that text,
\* and an entry whose '@' was consumed never ends in a recoverable error; so a
\* '#' before the closing '}' with no newline after it gives a fatal error.
C8_UnterminatedComment ==
  (pc = "done" /\ fn = "bibentry" /\ StartsWithAt(input)) =>
    /\ res.k \in {"Ok", "Failure"}
    /\ res.k = "Ok" =>
         LET used == Len(input) - Len(res.rest) IN
         \A j \in 1..used : input[j] = Ch.hash =>
           \E h \in (j + 1)..used : input[h] = Ch.nl

\* C8 witness: bibentry has failed fatally at a '#' that no newline follows,
\* inside an entry whose '@', type, key and first '=' it had read.
C8_Witness ==
  /\ pc = "done" /\ fn = "bibentry" /\ res.k = "Failure"
  /\ StartsWithAt(input)
  /\ res.rest # <<>>
  /\ Head(res.rest) = Ch.hash
  /\ ~HasNewline(res.rest)
  /\ \E j \in 1..(Len(input) - Len(res.rest)) : input[j] = Ch.eq
====
